---- MODULE Spec2Model ----
(***************************************************************************)
(* Model of the editor's read-only coordinator (components/modules/        *)
(* removeble.ts, class Removeble) and of the editable unit                 *)
(* (components/block/index.ts, class Block).                               *)
(*                                                                         *)
(* Six specifications share the module:                                    *)
(*   Spec       - the coordinator: prepare() and overlapping toggle()s     *)
(*   SpecSave   - a unit's tune composition and overlapping save()s        *)
(*   SpecInputs - a unit's input cache, focus tracking and the debounced   *)
(*                mutation handler                                         *)
(*   SpecHooks  - a unit's calls into the optional hooks of its tool       *)
(*   SpecCompose - a unit's content wrapped by its tunes                   *)
(*   SpecPicker - a unit's tool picker and the insertion of the picked tool*)
(***************************************************************************)
EXTENDS Integers, Sequences, FiniteSets, TLC

VARIABLES
    \* ---- Removeble ----
    blockTools,                \* Tools.blockTools: sequence of [name, isReadOnlySupported]
    configReadOnly,            \* this.config.readOnly
    toolsDontSupportReadOnly,  \* private toolsDontSupportReadOnly: string[]
    removebleEnabled,          \* private removebleEnabled
    prepared,                  \* "no" | "done" | "failed": outcome of prepare()
    prepareError,              \* tools named by the CriticalError prepare() threw
    calls,                     \* the toggle() invocations, by call number
    nCalls,                    \* number of toggle() invocations so far
    doc,                       \* the blocks held by BlockManager
    log,                       \* observed calls into the other subsystems
    \* ---- Block: tunes and save ----
    tunes,                     \* tool.tunes: sequence of [name, isInternal, hasSave]
    persisted,                 \* constructor option tunesData
    tunesInstances,            \* names of the user tunes, in Map order
    defaultTunesInstances,     \* names of the internal tunes, in Map order
    unavailableTunesData,      \* private unavailableTunesData
    saves,                     \* the save() invocations, by call number
    nSaves,                    \* number of save() invocations so far
    lastLoop,                  \* the save() whose tune loop ran last
    \* ---- Block: inputs and mutations ----
    dom,                       \* $.findAllInputs(holder): the live editable regions
    cachedInputs,              \* private cachedInputs
    inputIndex,                \* private inputIndex
    observing,                 \* between willSelect() and willUnselect()
    pending,                   \* the batch the pending debounced didMutated call was given
    pendingEvent,              \* the pending call was given an 'input' Event instead
    burstDue,                  \* a batch notified since the body last ran is Due
    timer,                     \* time since the pending call was (re)scheduled
    listeners,                 \* the regions carrying the unit's focus listener
    handled,                   \* what the run of the didMutated body just performed did
    returned,                  \* what the accessor read just performed returned
    indexClamped,              \* the last recomputation of the list moved inputIndex
    destroyed,                 \* destroy() has been called on the unit
    \* ---- Block: tool hooks ----
    toolInstance,              \* the names of the methods the tool instance implements
    hookLog,                   \* the hook invocations made on the tool instance
    completed,                 \* how the operation just performed ended
    nOps,                      \* number of operations performed so far
    \* ---- Block: composed container ----
    wrapped,                   \* wrappedContentNode: the content node and the wrappers
                               \* put around it, innermost first
    \* ---- Block: tool picker ----
    opened,                    \* public opened
    allBlocks,                 \* BlockManager's units, in document order
    currentBlockIndex,         \* BlockManager.currentBlockIndex (from 1)
    nBlocks,                   \* number of units created so far
    caret,                     \* the id of the unit Caret.setToBlock() was last given
    picked                     \* how the insertNewBlock() just performed went

roVars == <<blockTools, configReadOnly, toolsDontSupportReadOnly, removebleEnabled,
            prepared, prepareError, calls, nCalls, doc, log>>
saveVars == <<tunes, persisted, tunesInstances, defaultTunesInstances,
              unavailableTunesData, saves, nSaves, lastLoop>>
inputVars == <<dom, cachedInputs, inputIndex, observing, pending, pendingEvent, burstDue,
               timer, listeners, handled, returned, indexClamped, destroyed>>
hookVars == <<toolInstance, hookLog, completed, nOps>>
pickerVars == <<opened, allBlocks, currentBlockIndex, nBlocks, caret, picked>>
uiVars == <<wrapped, pickerVars>>
vars == <<roVars, saveVars, inputVars, hookVars, uiVars>>

(***************************************************************************)
(* Generic helpers                                                         *)
(***************************************************************************)
Range(s) == {s[i] : i \in 1..Len(s)}

Min(a, b) == IF a < b THEN a ELSE b

\* JavaScript's undefined, where the model's values are numbers
Undefined == -1

\* no accessor has been read since the last operation
NoReturn == [op |-> "none", value |-> Undefined]

\* no operation on the tool's hooks has been performed
NoOperation ==
    [op |-> "none", method |-> "none", params |-> "none", behaviour |-> "none",
     logged |-> 0, outcome |-> "none", value |-> "none"]

(***************************************************************************)
(* Bounds                                                                  *)
(***************************************************************************)
MaxCalls == 3      \* toggle() invocations, the one made by prepare() included
MaxSaves == 2      \* save() invocations on the unit
MaxInputs == 2     \* editable regions the unit's content can hold
TickStep == 150    \* granularity of the model's clock
MaxOps == 2        \* operations on the tool's hooks
MaxBlocks == 4     \* units created in the document

(***************************************************************************)
(* Read-only coordinator: Removeble                                        *)
(***************************************************************************)

\* The capability registry's block tools, as Tools.blockTools.entries() yields them.
RegistryConfigs ==
    { << [name |-> "X", isReadOnlySupported |-> a],
         [name |-> "Y", isReadOnlySupported |-> b] >> : a, b \in BOOLEAN }

\* The modules of this.Editor in property order; the coordinator itself is among them.
Editor ==
    << [name |-> "UI", hasToggleReadOnly |-> TRUE],
       [name |-> "Saver", hasToggleReadOnly |-> FALSE],
       [name |-> "Toolbar", hasToggleReadOnly |-> TRUE],
       [name |-> "Removeble", hasToggleReadOnly |-> FALSE] >>

InitialDoc == <<"b1", "b2">>

ToggleArgs == {"default", "true", "false"}

NoCall ==
    [pc |-> "unused", state |-> FALSE, oldState |-> FALSE, saved |-> <<>>,
     result |-> <<>>, error |-> <<>>]

RECURSIVE UnsupportedNames(_)
\* prepare(): the names of the tools whose isReadOnlySupported is falsy, in entry order
UnsupportedNames(tools) ==
    IF tools = <<>> THEN <<>>
    ELSE (IF Head(tools).isReadOnlySupported THEN <<>> ELSE <<Head(tools).name>>)
         \o UnsupportedNames(Tail(tools))

\* prepare() without its capability check
PrepareGateOmitted(readOnly, unsupported) == FALSE

\* prepare(): config.readOnly && toolsDontSupportReadOnly.length > 0
PrepareGate(readOnly, unsupported) == readOnly /\ Len(unsupported) > 0

\* toggle() without its capability check
ToggleGateOmitted(state, unsupported) == FALSE

\* toggle(): state && this.toolsDontSupportReadOnly.length > 0
ToggleGate(state, unsupported) == state /\ Len(unsupported) > 0

\* an error message that names the first offending tool only
CriticalErrorFirstTool(unsupported) ==
    IF unsupported = <<>> THEN <<>> ELSE <<Head(unsupported)>>

\* throwCriticalError(): the tools the message names (toolsDontSupportReadOnly.join(', '))
CriticalErrorTools(unsupported) == unsupported

\* toggle(state = !this.removebleEnabled)
TargetState(arg) == IF arg = "default" THEN ~removebleEnabled ELSE arg = "true"

\* a loop that stops before the last module that has the hook
HookedModulesButLast ==
    LET hooked == SelectSeq(Editor, LAMBDA m : m.hasToggleReadOnly)
    IN SubSeq(hooked, 1, Len(hooked) - 1)

\* toggle(): the modules the for-in loop does not skip
HookedModules == SelectSeq(Editor, LAMBDA m : m.hasToggleReadOnly)

\* toggle() without the early return
SameStateIgnored(oldState, state) == FALSE

\* toggle(): oldState === state
SameState(oldState, state) == oldState = state

\* toggle(): the value of `return this.removebleEnabled`
ToggleResult(enabledNow, state) == enabledNow

\* Saver.save(): the serialized blocks of the document
SaverSave(d) == d

\* BlockManager.clear()
BlockManagerClear(d) == <<>>

\* Renderer.render(blocks)
RendererRender(d, blocks) == d \o blocks

Event(kind, c, module, state, blocks) ==
    [ev |-> kind, by |-> c, module |-> module, state |-> state, blocks |-> blocks]

HookEvents(c, state) ==
    [i \in 1..Len(HookedModules) |-> Event("hook", c, HookedModules[i].name, state, <<>>)]

\* The synchronous part of toggle(), up to the first await (or the return).
ToggleBody(c, state, unsupported) ==
    IF ToggleGate(state, unsupported)
    THEN /\ calls' = [calls EXCEPT ![c] =
                [NoCall EXCEPT !.pc = "threw", !.state = state,
                               !.oldState = removebleEnabled,
                               !.error = CriticalErrorTools(unsupported)]]
         /\ UNCHANGED <<removebleEnabled, log, doc>>
    ELSE LET oldState == removebleEnabled
             same == SameState(oldState, state)
         IN /\ removebleEnabled' = state
            /\ log' = log \o HookEvents(c, state)
                          \o (IF same THEN <<>> ELSE <<Event("save", c, "Saver", state, <<>>)>>)
            /\ calls' = [calls EXCEPT ![c] =
                   [NoCall EXCEPT !.pc = IF same THEN "done" ELSE "awaitSave",
                                  !.state = state,
                                  !.oldState = oldState,
                                  !.saved = IF same THEN <<>> ELSE SaverSave(doc),
                                  !.result = IF same THEN <<ToggleResult(state, state)>>
                                             ELSE <<>>]]
            /\ UNCHANGED doc

\* prepare()
Prepare ==
    /\ prepared = "no"
    /\ LET unsupported == UnsupportedNames(blockTools)
       IN /\ toolsDontSupportReadOnly' = unsupported
          /\ IF PrepareGate(configReadOnly, unsupported)
             THEN /\ prepared' = "failed"
                  /\ prepareError' = CriticalErrorTools(unsupported)
                  /\ UNCHANGED <<removebleEnabled, calls, nCalls, doc, log>>
             ELSE /\ prepared' = "done"
                  /\ nCalls' = nCalls + 1
                  /\ ToggleBody(nCalls + 1, configReadOnly, unsupported)
                  /\ UNCHANGED prepareError
    /\ UNCHANGED <<blockTools, configReadOnly, saveVars, inputVars, hookVars, uiVars>>

\* toggle(state?) called by a user of the coordinator
Toggle(arg) ==
    /\ prepared # "no"
    /\ nCalls < MaxCalls
    /\ nCalls' = nCalls + 1
    /\ ToggleBody(nCalls + 1, TargetState(arg), toolsDontSupportReadOnly)
    /\ UNCHANGED <<blockTools, configReadOnly, toolsDontSupportReadOnly, prepared,
                   prepareError, saveVars, inputVars, hookVars, uiVars>>

\* toggle() resumes after `await this.Editor.Saver.save()` and calls BlockManager.clear()
SaveResolved(c) ==
    /\ calls[c].pc = "awaitSave"
    /\ calls' = [calls EXCEPT ![c].pc = "awaitClear"]
    /\ doc' = BlockManagerClear(doc)
    /\ log' = Append(log, Event("clear", c, "BlockManager", calls[c].state, <<>>))
    /\ UNCHANGED <<blockTools, configReadOnly, toolsDontSupportReadOnly, removebleEnabled,
                   prepared, prepareError, nCalls, saveVars, inputVars, hookVars, uiVars>>

\* a toggle() that goes on to BlockManager.clear() although the save pipeline rejected
SaveRejectedThenCleared(c) ==
    /\ calls[c].pc = "awaitSave"
    /\ calls' = [calls EXCEPT ![c].pc = "rejected"]
    /\ doc' = BlockManagerClear(doc)
    /\ log' = Append(log, Event("clear", c, "BlockManager", calls[c].state, <<>>))
    /\ UNCHANGED <<blockTools, configReadOnly, toolsDontSupportReadOnly, removebleEnabled,
                   prepared, prepareError, nCalls, saveVars, inputVars, hookVars, uiVars>>

\* the save pipeline rejects: toggle() rejects at its first await
SaveRejected(c) ==
    /\ calls[c].pc = "awaitSave"
    /\ calls' = [calls EXCEPT ![c].pc = "rejected"]
    /\ UNCHANGED <<blockTools, configReadOnly, toolsDontSupportReadOnly, removebleEnabled,
                   prepared, prepareError, nCalls, doc, log, saveVars, inputVars,
                   hookVars, uiVars>>

\* toggle() resumes after `await this.Editor.BlockManager.clear()` and calls Renderer.render
ClearResolved(c) ==
    /\ calls[c].pc = "awaitClear"
    /\ calls' = [calls EXCEPT ![c].pc = "awaitRender"]
    /\ doc' = RendererRender(doc, calls[c].saved)
    /\ log' = Append(log, Event("render", c, "Renderer", calls[c].state, calls[c].saved))
    /\ UNCHANGED <<blockTools, configReadOnly, toolsDontSupportReadOnly, removebleEnabled,
                   prepared, prepareError, nCalls, saveVars, inputVars, hookVars, uiVars>>

\* toggle() resumes after `await this.Editor.Renderer.render(...)` and returns
RenderResolved(c) ==
    /\ calls[c].pc = "awaitRender"
    /\ calls' = [calls EXCEPT ![c].pc = "done",
                              ![c].result = <<ToggleResult(removebleEnabled, calls[c].state)>>]
    /\ UNCHANGED <<blockTools, configReadOnly, toolsDontSupportReadOnly, removebleEnabled,
                   prepared, prepareError, nCalls, doc, log, saveVars, inputVars,
                   hookVars, uiVars>>

CallIds == 1..(MaxCalls + 1)

InitRO ==
    /\ blockTools \in RegistryConfigs
    /\ configReadOnly \in BOOLEAN
    /\ toolsDontSupportReadOnly = <<>>
    /\ removebleEnabled = FALSE
    /\ prepared = "no"
    /\ prepareError = <<>>
    /\ calls = [c \in CallIds |-> NoCall]
    /\ nCalls = 0
    /\ doc = InitialDoc
    /\ log = <<>>

\* the coordinator, constructed and never prepared
IdleRO ==
    /\ blockTools = <<>>
    /\ configReadOnly = FALSE
    /\ toolsDontSupportReadOnly = <<>>
    /\ removebleEnabled = FALSE
    /\ prepared = "no"
    /\ prepareError = <<>>
    /\ calls = [c \in CallIds |-> NoCall]
    /\ nCalls = 0
    /\ doc = <<>>
    /\ log = <<>>

\* a unit of which neither save() nor any tune is exercised
IdleSave ==
    /\ tunes = <<>>
    /\ persisted = <<>>
    /\ tunesInstances = <<>>
    /\ defaultTunesInstances = <<>>
    /\ unavailableTunesData = <<>>
    /\ saves = <<>>
    /\ nSaves = 0
    /\ lastLoop = 0

\* a unit with no editable region that is never selected
IdleInputs ==
    /\ dom = <<>>
    /\ cachedInputs = <<>>
    /\ inputIndex = 0
    /\ observing = FALSE
    /\ pending = <<>>
    /\ pendingEvent = FALSE
    /\ burstDue = FALSE
    /\ timer = 0
    /\ listeners = {}
    /\ handled = "none"
    /\ returned = NoReturn
    /\ indexClamped = FALSE
    /\ destroyed = FALSE

\* a unit of which no tool hook is exercised
IdleHooks ==
    /\ toolInstance = {}
    /\ hookLog = <<>>
    /\ completed = NoOperation
    /\ nOps = 0

\* no tool has been picked from the unit's tool picker
NoPick ==
    [outcome |-> "none", tool |-> "none", replace |-> FALSE, before |-> <<>>,
     at |-> 0, newBlock |-> 0, firstCaret |-> 0]

\* a unit whose tool picker is never used
IdlePicker ==
    /\ opened = FALSE
    /\ allBlocks = <<>>
    /\ currentBlockIndex = 0
    /\ nBlocks = 0
    /\ caret = 0
    /\ picked = NoPick

\* a unit whose container is not looked at and whose tool picker is never used
IdleUi ==
    /\ wrapped = <<>>
    /\ IdlePicker

Init == InitRO /\ IdleSave /\ IdleInputs /\ IdleHooks /\ IdleUi

Next ==
    \/ Prepare
    \/ \E arg \in ToggleArgs : Toggle(arg)
    \/ \E c \in CallIds : SaveResolved(c)
    \/ \E c \in CallIds : SaveRejected(c)
    \/ \E c \in CallIds : ClearResolved(c)
    \/ \E c \in CallIds : RenderResolved(c)

Spec == Init /\ [][Next]_vars


(***************************************************************************)
(* Editable unit: tune composition and save()                              *)
(***************************************************************************)

\* an object with no own property
EmptyMap == [n \in {} |-> FALSE]

\* obj[key] = value
Put(obj, key, value) ==
    [n \in DOMAIN obj \cup {key} |-> IF n = key THEN value ELSE obj[n]]

\* tool.tunes: an internal tune "R" and a user tune "A", each absent, or present with
\* or without a save hook
TuneConfigs ==
    { r \o a : r \in {<<>>} \cup {<<[name |-> "R", isInternal |-> TRUE, hasSave |-> h]>>
                                      : h \in BOOLEAN},
               a \in {<<>>} \cup {<<[name |-> "A", isInternal |-> FALSE, hasSave |-> h]>>
                                      : h \in BOOLEAN} }

\* names that persisted tune data may carry; no tune is ever named "B"
PersistedNames == {"A", "B", "R"}

PersistedPayload(n) == [from |-> "persisted", tune |-> n, call |-> 0]

\* the constructor's tunesData option
PersistedConfigs ==
    { [n \in d |-> PersistedPayload(n)] : d \in SUBSET PersistedNames }

\* what tune n's save hook returns in save() number c
HookPayload(n, c) == [from |-> "hook", tune |-> n, call |-> c]

\* what the tool's save hook resolves to in save() number c
ExtractedData(c) == [from |-> "tool", call |-> c]

RECURSIVE InstanceNames(_, _)
\* composeTunes(): the keys of the collection the tunes with tune.isInternal = internal
\* are set into, in insertion order
InstanceNames(ts, internal) ==
    IF ts = <<>> THEN <<>>
    ELSE (IF Head(ts).isInternal = internal THEN <<Head(ts).name>> ELSE <<>>)
         \o InstanceNames(Tail(ts), internal)

\* composeTunes(): a store that retains nothing
UnavailableDropped(tunesData, userNames) == EmptyMap

\* composeTunes(): the entries of tunesData whose name is not in this.tunesInstances
Unavailable(tunesData, userNames) ==
    [n \in {x \in DOMAIN tunesData : x \notin Range(userNames)} |-> tunesData[n]]

\* _.isFunction(tune.save) for the tune instance named n
HasSave(n) == \E t \in Range(tunes) : t.name = n /\ t.hasSave

\* save(): the entries the forEach iterates, user tunes first, then internal tunes
SaveOrder == tunesInstances \o defaultTunesInstances

\* the outcomes the save hooks may have in one save(): "ok" or "throw"
HookOutcomes ==
    [Range(SaveOrder) -> {"ok", "throw"}]

RECURSIVE SaveTunesLoopAborting(_, _, _, _)
\* a loop without the try/catch: the first hook that throws ends it
SaveTunesLoopAborting(order, tunesData, out, c) ==
    IF order = <<>> THEN tunesData
    ELSE LET n == Head(order)
         IN IF HasSave(n) /\ out[n] = "throw" THEN tunesData
            ELSE SaveTunesLoopAborting(Tail(order),
                     IF HasSave(n) THEN Put(tunesData, n, HookPayload(n, c)) ELSE tunesData,
                     out, c)

RECURSIVE SaveTunesLoop(_, _, _, _)
\* save(): the forEach over the tunes, writing into tunesData
SaveTunesLoop(order, tunesData, out, c) ==
    IF order = <<>> THEN tunesData
    ELSE LET n == Head(order)
         IN SaveTunesLoop(Tail(order),
                IF HasSave(n) /\ out[n] = "ok"
                THEN Put(tunesData, n, HookPayload(n, c))
                ELSE tunesData,
                out, c)

NoSave ==
    [pc |-> "unused", extraction |-> "ok", out |-> EmptyMap, data |-> ExtractedData(0),
     tunes |-> EmptyMap, loopAtResolve |-> 0]

SaveIds == 1..(MaxSaves + 1)

\* the tool's save hook: resolves, throws synchronously, or returns a rejected promise
Extractions == {"ok", "throws", "rejects"}

\* save() up to `await this.toolInstance.save(...)`
SaveCall(ext) ==
    /\ nSaves < MaxSaves
    /\ nSaves' = nSaves + 1
    /\ saves' = [saves EXCEPT ![nSaves + 1] =
                    [NoSave EXCEPT !.pc = IF ext = "throws" THEN "rejected" ELSE "awaitTool",
                                   !.extraction = ext]]
    /\ UNCHANGED <<tunes, persisted, tunesInstances, defaultTunesInstances,
                   unavailableTunesData, lastLoop, roVars, inputVars, hookVars, uiVars>>

\* the awaited promise rejected: save() rejects, nothing after line 607 runs
SaveToolRejected(c) ==
    /\ saves[c].pc = "awaitTool"
    /\ saves[c].extraction = "rejects"
    /\ saves' = [saves EXCEPT ![c].pc = "rejected"]
    /\ UNCHANGED <<tunes, persisted, tunesInstances, defaultTunesInstances,
                   unavailableTunesData, nSaves, lastLoop, roVars, inputVars, hookVars,
                   uiVars>>

\* save() resumes with the extracted data: tunesData is the object
\* this.unavailableTunesData itself, and the tune loop writes into it
SaveTunes(c, out) ==
    /\ saves[c].pc = "awaitTool"
    /\ saves[c].extraction = "ok"
    /\ unavailableTunesData' = SaveTunesLoop(SaveOrder, unavailableTunesData, out, c)
    /\ saves' = [saves EXCEPT ![c].pc = "awaitThen", ![c].out = out]
    /\ lastLoop' = c
    /\ UNCHANGED <<tunes, persisted, tunesInstances, defaultTunesInstances, nSaves,
                   roVars, inputVars, hookVars, uiVars>>

\* the then-callback builds the result; its tunes property is the object
\* this.unavailableTunesData, recorded here as the caller first reads it
SaveThen(c) ==
    /\ saves[c].pc = "awaitThen"
    /\ saves' = [saves EXCEPT ![c].pc = "resolved",
                              ![c].data = ExtractedData(c),
                              ![c].tunes = unavailableTunesData,
                              ![c].loopAtResolve = lastLoop]
    /\ UNCHANGED <<tunes, persisted, tunesInstances, defaultTunesInstances,
                   unavailableTunesData, nSaves, lastLoop, roVars, inputVars, hookVars,
                   uiVars>>

\* the unit after its constructor ran composeTunes(tunesData)
InitSave ==
    /\ tunes \in TuneConfigs
    /\ persisted \in PersistedConfigs
    /\ tunesInstances = InstanceNames(tunes, FALSE)
    /\ defaultTunesInstances = InstanceNames(tunes, TRUE)
    /\ unavailableTunesData = Unavailable(persisted, InstanceNames(tunes, FALSE))
    /\ saves = [c \in SaveIds |-> NoSave]
    /\ nSaves = 0
    /\ lastLoop = 0

InitSaveSpec == IdleRO /\ InitSave /\ IdleInputs /\ IdleHooks /\ IdleUi

NextSave ==
    \/ \E ext \in Extractions : SaveCall(ext)
    \/ \E c \in SaveIds : SaveToolRejected(c)
    \/ \E c \in SaveIds : \E out \in HookOutcomes : SaveTunes(c, out)
    \/ \E c \in SaveIds : SaveThen(c)

SpecSave == InitSaveSpec /\ [][NextSave]_vars


(***************************************************************************)
(* Editable unit: the content wrapped by the tunes                         *)
(***************************************************************************)

\* what a tune's wrap is: not a function, a function that returns a wrapper around
\* its argument, a function that throws
WrapKinds == {"none", "wraps", "throws"}

\* the names a tool's tunes can have; "R" is an internal tune
WrapTuneNames == {"A", "B", "R"}

\* tool.tunes: any of the tunes, in any order, each with any kind of wrap
WrapTuneConfigs ==
    {t \in UNION {[1..n -> [name : WrapTuneNames, isInternal : BOOLEAN, hasSave : {FALSE},
                            wrap : WrapKinds]] : n \in 0..Cardinality(WrapTuneNames)} :
        /\ \A i \in 1..Len(t) : t[i].isInternal = (t[i].name = "R")
        /\ \A i \in 1..Len(t) : \A j \in 1..Len(t) : i # j => t[i].name # t[j].name}

\* the content node before any tune has wrapped it
ContentNode == <<"content">>

\* tune.wrap of the tune instance named n
WrapOf(n) == (CHOOSE t \in Range(tunes) : t.name = n).wrap

\* a fold that visits the internal tunes first
WrapOrderInternalFirst == defaultTunesInstances \o tunesInstances

\* compose(): [...this.tunesInstances.values(), ...this.defaultTunesInstances.values()]
WrapOrder == tunesInstances \o defaultTunesInstances

\* compose(): one pass of the forEach body; a wrap that is no function or that throws
\* leaves wrappedContentNode as it was
WrapStep(node, n) == IF WrapOf(n) = "wraps" THEN Append(node, n) ELSE node

RECURSIVE WrapFold(_, _)
\* compose(): the forEach over the tunes, threading wrappedContentNode
WrapFold(node, order) ==
    IF order = <<>> THEN node ELSE WrapFold(WrapStep(node, Head(order)), Tail(order))

\* compose(): the tunes wrap the content node
Compose ==
    /\ wrapped = <<>>
    /\ wrapped' = WrapFold(ContentNode, WrapOrder)
    /\ UNCHANGED <<roVars, saveVars, inputVars, hookVars, pickerVars>>

\* a unit whose tunes have been instantiated and whose container is about to be composed
InitCompose ==
    /\ tunes \in WrapTuneConfigs
    /\ persisted = EmptyMap
    /\ tunesInstances = InstanceNames(tunes, FALSE)
    /\ defaultTunesInstances = InstanceNames(tunes, TRUE)
    /\ unavailableTunesData = EmptyMap
    /\ saves = <<>>
    /\ nSaves = 0
    /\ lastLoop = 0
    /\ wrapped = <<>>

InitComposeSpec == IdleRO /\ InitCompose /\ IdleInputs /\ IdleHooks /\ IdlePicker

NextCompose == Compose

SpecCompose == InitComposeSpec /\ [][NextCompose]_vars


(***************************************************************************)
(* Editable unit: the tool picker                                          *)
(***************************************************************************)

\* the tools of the picker: a paragraph has one editable region, a delimiter none
PickerTools == {"paragraph", "delimiter"}

\* newBlock.inputs.length
InputsLength(tool) == IF tool = "paragraph" THEN 1 ELSE 0

\* a unit of BlockManager's list
BlockOf(id, tool, isEmpty) == [id |-> id, tool |-> tool, isEmpty |-> isEmpty]

\* the documents the picker is used in: one or two units, any of them current
PickerDocs ==
    UNION {[1..n -> [tool : PickerTools, isEmpty : BOOLEAN]] : n \in 1..2}

\* BlockManager.insert({tool, replace}): the new unit takes the place of the current
\* one, or the place after it
BlockManagerInsert(list, index, block, replace) ==
    IF replace
    THEN [list EXCEPT ![index] = block]
    ELSE SubSeq(list, 1, index) \o <<block>> \o SubSeq(list, index + 1, Len(list))

\* BlockManager.insert(): currentBlockIndex afterwards, the place of the new unit
InsertedAt(index, replace) == IF replace THEN index ELSE index + 1

\* BlockManager.insertAtEnd(): a default unit is appended
BlockManagerInsertAtEnd(list, block) == Append(list, block)

\* close(): this.opened = false
Closed(wasOpened) == FALSE

\* toggle(): open() when the picker is closed, close() when it is opened
BlockToggle ==
    /\ opened' = IF ~opened THEN TRUE ELSE Closed(opened)
    /\ picked' = NoPick
    /\ UNCHANGED <<allBlocks, currentBlockIndex, nBlocks, caret, wrapped, roVars, saveVars,
                   inputVars, hookVars>>

\* toolButtonActivate(event, toolName): insertNewBlock(toolName). insertThrows is
\* whether BlockManager.insert() fails; nothing in insertNewBlock catches it.
ToolButtonActivate(toolName, insertThrows) ==
    /\ nBlocks + 2 <= MaxBlocks
    /\ LET replace == allBlocks[currentBlockIndex].isEmpty
           at == InsertedAt(currentBlockIndex, replace)
           newBlock == BlockOf(nBlocks + 1, toolName, TRUE)
           inserted == BlockManagerInsert(allBlocks, currentBlockIndex, newBlock, replace)
           record == [outcome |-> "returned", tool |-> toolName, replace |-> replace,
                      before |-> allBlocks, at |-> at, newBlock |-> newBlock.id,
                      firstCaret |-> newBlock.id]
       IN IF insertThrows
          THEN /\ picked' = [NoPick EXCEPT !.outcome = "threw", !.tool = toolName,
                                           !.replace = replace, !.before = allBlocks]
               /\ UNCHANGED <<opened, allBlocks, currentBlockIndex, nBlocks, caret>>
          ELSE /\ picked' = record
               /\ opened' = Closed(opened)
               /\ IF InputsLength(toolName) = 0
                  THEN IF at = Len(inserted)
                       THEN /\ allBlocks' = BlockManagerInsertAtEnd(
                                             inserted, BlockOf(nBlocks + 2, "paragraph", TRUE))
                            /\ currentBlockIndex' = Len(inserted) + 1
                            /\ nBlocks' = nBlocks + 2
                            /\ caret' = nBlocks + 2
                       ELSE /\ allBlocks' = inserted
                            /\ currentBlockIndex' = at
                            /\ nBlocks' = nBlocks + 1
                            /\ caret' = inserted[at + 1].id
                  ELSE /\ allBlocks' = inserted
                       /\ currentBlockIndex' = at
                       /\ nBlocks' = nBlocks + 1
                       /\ caret' = newBlock.id
    /\ UNCHANGED <<wrapped, roVars, saveVars, inputVars, hookVars>>

\* a document in which the unit's picker can be used
InitPicker ==
    /\ opened = FALSE
    /\ \E d \in PickerDocs :
          allBlocks = [i \in 1..Len(d) |-> BlockOf(i, d[i].tool, d[i].isEmpty)]
    /\ currentBlockIndex \in 1..Len(allBlocks)
    /\ nBlocks = Len(allBlocks)
    /\ caret = 0
    /\ picked = NoPick
    /\ wrapped = <<>>

InitPickerSpec == IdleRO /\ IdleSave /\ IdleInputs /\ IdleHooks /\ InitPicker

NextPicker ==
    \/ BlockToggle
    \/ \E toolName \in PickerTools : \E insertThrows \in BOOLEAN :
          ToolButtonActivate(toolName, insertThrows)

SpecPicker == InitPickerSpec /\ [][NextPicker]_vars


(***************************************************************************)
(* Editable unit: calls into the tool's hooks                              *)
(***************************************************************************)

\* the methods a tool instance may or may not implement
Hooks == {"updated", "validate", "destroy", "merge"}

\* the values passed to a hook
Params == {"d1", "d2"}

\* what an invoked hook does
Behaviours == {"returns", "throws"}

\* what an invoked validate hook does: its verdict, a throw, a rejected promise
Verdicts == {"true", "false"}
ValidateBehaviours == Verdicts \cup {"throws", "rejects"}

\* what an invoked merge hook does
MergeBehaviours == {"returns", "throws", "rejects"}

\* _.isFunction(this.toolInstance[methodName])
IsFunction(tool, methodName) == methodName \in tool

\* the hook is invoked with the params
Invoke(invocations, methodName, params) ==
    Append(invocations, [method |-> methodName, params |-> params])

\* a call whose try/catch is left out
CallSettlesUncaught(behaviour) ==
    IF behaviour = "throws" THEN "threw" ELSE "returned"

\* call(): try { hook.call(toolInstance, params) } catch (e) { log }
CallSettles(behaviour) == "returned"

\* a validate() that ignores the tool's hook
ValidateSettlesWithoutHook(implemented, behaviour) ==
    [outcome |-> "resolved", value |-> "true"]

\* validate(data): isValid = true; if the hook is a Function, isValid = await hook(data)
ValidateSettles(implemented, behaviour) ==
    IF ~implemented
    THEN [outcome |-> "resolved", value |-> "true"]
    ELSE IF behaviour \in Verdicts
         THEN [outcome |-> "resolved", value |-> behaviour]
         ELSE [outcome |-> "rejected", value |-> "none"]

\* destroy(): if (_.isFunction(toolInstance.destroy)) toolInstance.destroy()
DestroySettles(implemented, behaviour) ==
    IF implemented /\ behaviour = "throws" THEN "threw" ELSE "returned"

\* mergeWith(data): await this.toolInstance.merge(data); a missing merge is a TypeError
MergeSettles(implemented, behaviour) ==
    IF implemented /\ behaviour = "returns" THEN "resolved" ELSE "rejected"

\* what the hook was seen to do: nothing when the tool has no such hook
Shown(methodName, behaviour) ==
    IF IsFunction(toolInstance, methodName) THEN behaviour ELSE "none"

\* call(methodName, params)
Call(methodName, params, behaviour) ==
    /\ nOps < MaxOps
    /\ nOps' = nOps + 1
    /\ hookLog' = IF IsFunction(toolInstance, methodName)
                  THEN Invoke(hookLog, methodName, params)
                  ELSE hookLog
    /\ completed' = [op |-> "call", method |-> methodName, params |-> params,
                     behaviour |-> Shown(methodName, behaviour), logged |-> Len(hookLog),
                     outcome |-> CallSettles(Shown(methodName, behaviour)),
                     value |-> "none"]
    /\ UNCHANGED <<toolInstance, roVars, saveVars, inputVars, uiVars>>

\* validate(data)
Validate(data, behaviour) ==
    /\ nOps < MaxOps
    /\ nOps' = nOps + 1
    /\ hookLog' = IF IsFunction(toolInstance, "validate")
                  THEN Invoke(hookLog, "validate", data)
                  ELSE hookLog
    /\ LET settled == ValidateSettles(IsFunction(toolInstance, "validate"), behaviour)
       IN completed' = [op |-> "validate", method |-> "validate", params |-> data,
                        behaviour |-> Shown("validate", behaviour), logged |-> Len(hookLog),
                        outcome |-> settled.outcome, value |-> settled.value]
    /\ UNCHANGED <<toolInstance, roVars, saveVars, inputVars, uiVars>>

\* destroy(): neither the observer nor the scheduled handler body is touched
Destroy(behaviour) ==
    /\ ~destroyed
    /\ destroyed' = TRUE
    /\ nOps < MaxOps
    /\ nOps' = nOps + 1
    /\ hookLog' = IF IsFunction(toolInstance, "destroy")
                  THEN Invoke(hookLog, "destroy", "none")
                  ELSE hookLog
    /\ completed' = [op |-> "destroy", method |-> "destroy", params |-> "none",
                     behaviour |-> Shown("destroy", behaviour), logged |-> Len(hookLog),
                     outcome |-> DestroySettles(IsFunction(toolInstance, "destroy"),
                                                behaviour),
                     value |-> "none"]
    /\ handled' = "none"
    /\ UNCHANGED <<toolInstance, roVars, saveVars, dom, cachedInputs, inputIndex,
                   observing, pending, pendingEvent, burstDue, timer, listeners, returned,
                   indexClamped, uiVars>>

\* mergeWith(data)
MergeWith(data, behaviour) ==
    /\ nOps < MaxOps
    /\ nOps' = nOps + 1
    /\ hookLog' = IF IsFunction(toolInstance, "merge")
                  THEN Invoke(hookLog, "merge", data)
                  ELSE hookLog
    /\ completed' = [op |-> "mergeWith", method |-> "merge", params |-> data,
                     behaviour |-> Shown("merge", behaviour), logged |-> Len(hookLog),
                     outcome |-> MergeSettles(IsFunction(toolInstance, "merge"), behaviour),
                     value |-> "none"]
    /\ UNCHANGED <<toolInstance, roVars, saveVars, inputVars, uiVars>>

\* a unit whose tool implements any of the optional hooks
InitHooks ==
    /\ toolInstance \in SUBSET Hooks
    /\ hookLog = <<>>
    /\ completed = NoOperation
    /\ nOps = 0

InitHooksSpec == IdleRO /\ IdleSave /\ IdleInputs /\ InitHooks /\ IdleUi

NextHooks ==
    \/ \E methodName \in Hooks : \E params \in Params : \E behaviour \in Behaviours :
          Call(methodName, params, behaviour)
    \/ \E data \in Params : \E behaviour \in ValidateBehaviours : Validate(data, behaviour)
    \/ \E behaviour \in Behaviours : Destroy(behaviour)
    \/ \E data \in Params : \E behaviour \in MergeBehaviours : MergeWith(data, behaviour)

SpecHooks == InitHooksSpec /\ [][NextHooks]_vars


(***************************************************************************)
(* Editable unit: inputs, focus tracking and the debounced mutation handler*)
(***************************************************************************)

\* private readonly modificationDebounceTimer = 450
modificationDebounceTimer == 450

\* the editable regions that can exist in the unit's content, in document order
Regions == 1..MaxInputs

\* an element that lies in no editable region of the unit
Outside == 0

\* $.isNativeInput(input): the regions that are <input> or <textarea> elements; the
\* others are contenteditable
NativeInputs == {1}

\* $.findAllInputs(this.holder): the regions present, in document order
Doms ==
    {d \in UNION {[1..n -> Regions] : n \in 0..MaxInputs} :
        \A i \in 1..Len(d) : \A j \in 1..Len(d) : i < j => d[i] < d[j]}

\* the nodes a MutationRecord lists: a plain element, an element with
\* data-mutation-free="true", a text node
PlainElement == [isElement |-> TRUE, mutationFree |-> FALSE]
MutationFreeElement == [isElement |-> TRUE, mutationFree |-> TRUE]
TextNode == [isElement |-> FALSE, mutationFree |-> FALSE]

MutationRecords ==
    { [addedNodes |-> <<>>, removedNodes |-> <<>>],
      [addedNodes |-> <<PlainElement>>, removedNodes |-> <<>>],
      [addedNodes |-> <<>>, removedNodes |-> <<PlainElement>>],
      [addedNodes |-> <<MutationFreeElement>>, removedNodes |-> <<>>],
      [addedNodes |-> <<>>, removedNodes |-> <<MutationFreeElement>>],
      [addedNodes |-> <<TextNode>>, removedNodes |-> <<PlainElement, MutationFreeElement>>] }

\* the batches the MutationObserver delivers
Batches ==
    {<<r>> : r \in MutationRecords}
    \cup { << [addedNodes |-> <<PlainElement>>, removedNodes |-> <<>>],
              [addedNodes |-> <<MutationFreeElement>>, removedNodes |-> <<>>] >> }

\* didMutated: !mutations.some(record => [...added, ...removed].some(node =>
\*   $.isElement(node) && node.dataset.mutationFree === 'true'))
ShouldFireUpdate(mutations) ==
    ~ \E i \in 1..Len(mutations) :
         \E node \in Range(mutations[i].addedNodes \o mutations[i].removedNodes) :
            node.isElement /\ node.mutationFree

\* the nodes a batch lists as added or removed
NodesOf(mutations) ==
    UNION {Range(mutations[i].addedNodes \o mutations[i].removedNodes) :
              i \in 1..Len(mutations)}

\* the node is an element marked data-mutation-free
MarkedMutationFree(node) == node.isElement /\ node.mutationFree

\* the batch lists a node that is not marked mutation-free
HasUnmarkedNode(mutations) == \E node \in NodesOf(mutations) : ~MarkedMutationFree(node)

\* the batch lists nodes, and every one of them is marked mutation-free
EveryNodeMarked(mutations) ==
    NodesOf(mutations) # {} /\ \A node \in NodesOf(mutations) : MarkedMutationFree(node)

\* the body of didMutated, run with this batch alone, would process it, and the batch
\* lists a node that is not marked mutation-free
Due(mutations) == ShouldFireUpdate(mutations) /\ HasUnmarkedNode(mutations)

\* a handler that leaves the cache as it is
CacheKept(cache) == cache

\* didMutated, handleFocus: this.cachedInputs = []
CacheDropped(cache) == <<>>

\* get inputs() without the clamp of inputIndex
InputsGetUnclamped(cache, index, live) ==
    IF Len(cache) # 0
    THEN [inputs |-> cache, cachedInputs |-> cache, inputIndex |-> index]
    ELSE [inputs |-> live, cachedInputs |-> live, inputIndex |-> index]

\* get inputs(): the list returned, and the fields as the getter leaves them
InputsGet(cache, index, live) ==
    IF Len(cache) # 0
    THEN [inputs |-> cache, cachedInputs |-> cache, inputIndex |-> index]
    ELSE [inputs |-> live,
          cachedInputs |-> live,
          inputIndex |-> IF index > Len(live) - 1 THEN Len(live) - 1 ELSE index]

\* Array.prototype.findIndex(input => input === element || input.contains(element))
FindIndex(list, element) ==
    IF \E i \in 1..Len(list) : list[i] = element
    THEN (CHOOSE i \in 1..Len(list) :
             list[i] = element /\ \A j \in 1..(i - 1) : list[j] # element) - 1
    ELSE -1

\* set currentInput(element), reached through updateCurrentInput()
SetCurrentInput(cache, index, live, element) ==
    LET got == InputsGet(cache, index, live)
        found == FindIndex(got.inputs, element)
    IN [cachedInputs |-> got.cachedInputs,
        inputIndex |-> IF found # -1 THEN found ELSE got.inputIndex]

\* list[i] as JavaScript evaluates it: undefined outside 0..length-1
At(list, i) == IF i \in 0..(Len(list) - 1) THEN list[i + 1] ELSE Undefined

\* get lastInput(): inputs[inputs.length - 1]
LastInput(list) == At(list, Len(list) - 1)

\* get currentInput(): this.inputs[this.inputIndex]
CurrentInputGet(cache, index, live) ==
    LET got == InputsGet(cache, index, live)
    IN [value |-> At(got.inputs, got.inputIndex),
        cachedInputs |-> got.cachedInputs,
        inputIndex |-> got.inputIndex]

\* get inputs(): whether inputIndex is (still) where a recomputation clamped it
ClampedByGet(cache, index, live, was) ==
    IF Len(cache) # 0 THEN was ELSE index > Len(live) - 1

\* set currentInput(element): an element found in the list replaces a clamped index
ClampedBySet(cache, index, live, element, was) ==
    IF FindIndex(InputsGet(cache, index, live).inputs, element) # -1
    THEN FALSE
    ELSE ClampedByGet(cache, index, live, was)

\* The editor drops a unit it has destroyed: no caller selects it, reads it or changes
\* its content afterwards (the guards ~destroyed below); a handler body that was
\* already scheduled still runs.

\* willSelect(): the observer is connected and addInputEvents() reads this.inputs
WillSelect ==
    /\ ~destroyed
    /\ ~observing
    /\ observing' = TRUE
    /\ LET got == InputsGet(cachedInputs, inputIndex, dom)
       IN /\ cachedInputs' = got.cachedInputs
          /\ inputIndex' = got.inputIndex
          /\ listeners' = listeners \cup Range(got.inputs)
    /\ indexClamped' = ClampedByGet(cachedInputs, inputIndex, dom, indexClamped)
    /\ returned' = NoReturn
    /\ handled' = "none"
    /\ UNCHANGED <<dom, pending, pendingEvent, burstDue, timer, destroyed, roVars,
                   saveVars, hookVars, uiVars>>

\* willUnselect(): the observer is disconnected and removeInputEvents() reads this.inputs
WillUnselect ==
    /\ ~destroyed
    /\ observing
    /\ observing' = FALSE
    /\ LET got == InputsGet(cachedInputs, inputIndex, dom)
       IN /\ cachedInputs' = got.cachedInputs
          /\ inputIndex' = got.inputIndex
          /\ listeners' = listeners \ Range(got.inputs)
    /\ indexClamped' = ClampedByGet(cachedInputs, inputIndex, dom, indexClamped)
    /\ returned' = NoReturn
    /\ handled' = "none"
    /\ UNCHANGED <<dom, pending, pendingEvent, burstDue, timer, destroyed, roVars,
                   saveVars, hookVars, uiVars>>

\* the content changes; a connected observer delivers the batch to the debounced
\* didMutated, which (re)schedules the handler body
DomMutation(live, mutations) ==
    /\ ~destroyed
    /\ dom' = live
    /\ IF observing
       THEN /\ pending' = <<mutations>>
            /\ pendingEvent' = FALSE
            /\ burstDue' = (burstDue \/ Due(mutations))
            /\ timer' = 0
       ELSE UNCHANGED <<pending, pendingEvent, burstDue, timer>>
    /\ returned' = NoReturn
    /\ handled' = "none"
    /\ UNCHANGED <<cachedInputs, inputIndex, observing, listeners, indexClamped,
                   destroyed, roVars, saveVars, hookVars, uiVars>>

\* time passes while a call of the handler body is pending
Tick ==
    /\ pending # <<>> \/ pendingEvent
    /\ timer < modificationDebounceTimer
    /\ timer' = Min(timer + TickStep, modificationDebounceTimer)
    /\ handled' = "none"
    /\ UNCHANGED <<dom, cachedInputs, inputIndex, observing, pending, pendingEvent,
                   burstDue, listeners, returned, indexClamped, destroyed, roVars,
                   saveVars, hookVars, uiVars>>

\* the debounce delay has elapsed: the body of didMutated runs with the last batch;
\* element is what updateCurrentInput() reads from the live selection. Given an Event,
\* the body stops at mutations.some, which an Event does not have (a TypeError).
DidMutated(element) ==
    /\ pending # <<>> \/ pendingEvent
    /\ timer = modificationDebounceTimer
    /\ pending' = <<>>
    /\ pendingEvent' = FALSE
    /\ burstDue' = FALSE
    /\ timer' = 0
    /\ IF pendingEvent
       THEN /\ handled' = "threw"
            /\ UNCHANGED <<cachedInputs, inputIndex, indexClamped>>
       ELSE IF ShouldFireUpdate(pending[1])
       THEN
            LET set == SetCurrentInput(CacheDropped(cachedInputs), inputIndex, dom, element)
            IN /\ cachedInputs' = set.cachedInputs
               /\ inputIndex' = set.inputIndex
               /\ indexClamped' = ClampedBySet(CacheDropped(cachedInputs), inputIndex, dom,
                                               element, indexClamped)
               /\ handled' = "fired"
       ELSE /\ handled' = "ignored"
            /\ UNCHANGED <<cachedInputs, inputIndex, indexClamped>>
    /\ returned' = NoReturn
    /\ UNCHANGED <<dom, observing, listeners, destroyed, roVars, saveVars, hookVars,
                   uiVars>>

\* the user types into a native input of the unit that carries the 'input' listener:
\* the debounced didMutated is called with the Event
InputEvent(element) ==
    /\ ~destroyed
    /\ element \in listeners \cap NativeInputs
    /\ element \in Range(dom)
    /\ pending' = <<>>
    /\ pendingEvent' = TRUE
    /\ timer' = 0
    /\ returned' = NoReturn
    /\ handled' = "none"
    /\ UNCHANGED <<burstDue, dom, cachedInputs, inputIndex, observing, listeners,
                   indexClamped, destroyed, roVars, saveVars, hookVars, uiVars>>

\* handleFocus: a region carrying the listener receives focus
HandleFocus(element) ==
    /\ ~destroyed
    /\ element \in listeners
    /\ element \in Range(dom)
    /\ LET set == SetCurrentInput(CacheDropped(cachedInputs), inputIndex, dom, element)
       IN /\ cachedInputs' = set.cachedInputs
          /\ inputIndex' = set.inputIndex
    /\ indexClamped' = ClampedBySet(CacheDropped(cachedInputs), inputIndex, dom, element,
                                    indexClamped)
    /\ returned' = NoReturn
    /\ handled' = "none"
    /\ UNCHANGED <<dom, observing, pending, pendingEvent, burstDue, timer, listeners,
                   destroyed, roVars, saveVars, hookVars, uiVars>>

\* a caller reads block.inputs
ReadInputs ==
    /\ ~destroyed
    /\ LET got == InputsGet(cachedInputs, inputIndex, dom)
       IN /\ cachedInputs' = got.cachedInputs
          /\ inputIndex' = got.inputIndex
    /\ indexClamped' = ClampedByGet(cachedInputs, inputIndex, dom, indexClamped)
    /\ returned' = NoReturn
    /\ handled' = "none"
    /\ UNCHANGED <<dom, observing, pending, pendingEvent, burstDue, timer, listeners,
                   destroyed, roVars, saveVars, hookVars, uiVars>>

\* a caller reads block.currentInput
ReadCurrentInput ==
    /\ ~destroyed
    /\ LET got == CurrentInputGet(cachedInputs, inputIndex, dom)
       IN /\ cachedInputs' = got.cachedInputs
          /\ inputIndex' = got.inputIndex
          /\ returned' = [op |-> "currentInput", value |-> got.value]
    /\ indexClamped' = ClampedByGet(cachedInputs, inputIndex, dom, indexClamped)
    /\ handled' = "none"
    /\ UNCHANGED <<dom, observing, pending, pendingEvent, burstDue, timer, listeners,
                   destroyed, roVars, saveVars, hookVars, uiVars>>

\* a caller assigns block.currentInput = element
AssignCurrentInput(element) ==
    /\ ~destroyed
    /\ LET set == SetCurrentInput(cachedInputs, inputIndex, dom, element)
       IN /\ cachedInputs' = set.cachedInputs
          /\ inputIndex' = set.inputIndex
    /\ indexClamped' = ClampedBySet(cachedInputs, inputIndex, dom, element, indexClamped)
    /\ returned' = NoReturn
    /\ handled' = "none"
    /\ UNCHANGED <<dom, observing, pending, pendingEvent, burstDue, timer, listeners,
                   destroyed, roVars, saveVars, hookVars, uiVars>>

\* the unit after construction, its content rendered by the tool
InitInputs ==
    /\ dom \in Doms
    /\ cachedInputs = <<>>
    /\ inputIndex = 0
    /\ observing = FALSE
    /\ pending = <<>>
    /\ pendingEvent = FALSE
    /\ burstDue = FALSE
    /\ timer = 0
    /\ listeners = {}
    /\ handled = "none"
    /\ returned = NoReturn
    /\ indexClamped = FALSE
    /\ destroyed = FALSE

InitInputsSpec == IdleRO /\ IdleSave /\ InitInputs /\ IdleHooks /\ IdleUi

NextInputs ==
    \/ WillSelect
    \/ WillUnselect
    \/ \E live \in Doms : \E mutations \in Batches : DomMutation(live, mutations)
    \/ Tick
    \/ \E element \in Regions \cup {Outside} : DidMutated(element)
    \/ \E element \in Regions : InputEvent(element)
    \/ \E element \in Regions : HandleFocus(element)
    \/ ReadInputs
    \/ ReadCurrentInput
    \/ \E element \in Regions \cup {Outside} : AssignCurrentInput(element)
    \/ \E behaviour \in Behaviours : Destroy(behaviour)

SpecInputs == InitInputsSpec /\ [][NextInputs]_vars



(***************************************************************************)
(* Properties of the coordinator (checked under Spec)                      *)
(***************************************************************************)
UnsupportedSet == {t.name : t \in {x \in Range(blockTools) : ~x.isReadOnlySupported}}
HookNames == {m.name : m \in {x \in Range(Editor) : x.hasToggleReadOnly}}
EventsOf(c, kind) == {i \in 1..Len(log) : log[i].by = c /\ log[i].ev = kind}
Passed(c) == calls[c].pc \notin {"unused", "threw"}
Changed(c) == Passed(c) /\ calls[c].state # calls[c].oldState
\* this step is the invocation of toggle() number c
Invoked(c) == calls[c].pc = "unused" /\ calls'[c].pc # "unused"

\* C1: once prepare() has computed the not-supported set, isEnabled is false whenever
\* that set is non-empty, whatever toggle() calls have been made.
C1_NeverEnabledWithUnsupportedTools ==
    (prepared # "no" /\ Len(toolsDontSupportReadOnly) > 0) => ~removebleEnabled

C1_Witness ==
    /\ prepared # "no"
    /\ Len(toolsDontSupportReadOnly) > 0
    /\ \E c \in CallIds : calls[c].pc = "threw"
    /\ \E c \in CallIds : calls[c].pc = "done"

\* C2: toggle(true) while the not-supported set is non-empty fails with an error naming
\* every tool of the set and changes nothing: isEnabled, the hooks' log, the document
\* and the other calls stay as they were, and no save, clear or render is started.
C2_FailedEnableChangesNothing ==
    [][\A c \in CallIds :
         (Invoked(c) /\ calls'[c].state /\ Len(toolsDontSupportReadOnly') > 0)
            => /\ calls'[c].pc = "threw"
               /\ Range(calls'[c].error) = UnsupportedSet
               /\ removebleEnabled' = removebleEnabled
               /\ log' = log
               /\ doc' = doc
               /\ \A d \in CallIds \ {c} : calls'[d] = calls[d]]_vars

C2_Witness ==
    \E c \in CallIds : /\ calls[c].pc = "threw"
                       /\ Len(calls[c].error) > 1
                       /\ log # <<>>

\* C3: prepare() with readOnly = true and a tool that does not support read-only fails
\* with the fatal error and leaves the coordinator disabled, with no hook invoked and
\* no reload cycle started.
C3_PrepareFailsDisabled ==
    [][(prepared = "no" /\ prepared' # "no" /\ configReadOnly /\ UnsupportedSet # {})
          => /\ prepared' = "failed"
             /\ Range(prepareError') = UnsupportedSet
             /\ ~removebleEnabled'
             /\ log' = <<>>
             /\ \A c \in CallIds : calls'[c].pc = "unused"]_vars

C3_Witness == prepared = "failed" /\ prepareError # <<>> /\ ~removebleEnabled

HooksOnce(c) ==
    /\ \A n \in HookNames :
          Cardinality({i \in EventsOf(c, "hook") : log[i].module = n}) = 1
    /\ \A i \in EventsOf(c, "hook") : log[i].state = calls[c].state

\* the steps of call c's reload cycle that have happened are in the order
\* hooks, save, clear, render, each at most once, render with the saved blocks
CycleOrdered(c) ==
    /\ Cardinality(EventsOf(c, "save")) = 1
    /\ Cardinality(EventsOf(c, "clear")) <= 1
    /\ Cardinality(EventsOf(c, "render")) <= 1
    /\ \A h \in EventsOf(c, "hook") : \A s \in EventsOf(c, "save") : h < s
    /\ \A s \in EventsOf(c, "save") : \A k \in EventsOf(c, "clear") : s < k
    /\ \A k \in EventsOf(c, "clear") : \A r \in EventsOf(c, "render") : k < r
    /\ EventsOf(c, "render") # {} => EventsOf(c, "clear") # {}
    /\ \A r \in EventsOf(c, "render") : log[r].blocks = calls[c].saved

StateChanges == Cardinality({c \in CallIds : Changed(c)})
HookCalls(n) == Cardinality({i \in 1..Len(log) : log[i].ev = "hook" /\ log[i].module = n})

TuneNames == {t.name : t \in Range(tunes)}
Resolved(c) == saves[c].pc = "resolved"
\* the tunes whose save hook threw in save() number c
Throwers(c) == {n \in DOMAIN saves[c].out : HasSave(n) /\ saves[c].out[n] = "throw"}
\* the tunes whose save hook returned in save() number c
Returners(c) == {n \in DOMAIN saves[c].out : HasSave(n) /\ saves[c].out[n] = "ok"}

\* C6: persisted data of a tune that is not loaded is in every save() result, under the
\* tune's name and unchanged, after any earlier saves and whatever the hooks did.
C6_UnloadedTuneDataRoundTrips ==
    \A c \in SaveIds :
       Resolved(c) =>
          \A n \in DOMAIN persisted \ TuneNames :
             /\ n \in DOMAIN saves[c].tunes
             /\ saves[c].tunes[n] = persisted[n]
             /\ n \in DOMAIN unavailableTunesData
             /\ unavailableTunesData[n] = persisted[n]

C6_Witness ==
    \E c \in SaveIds :
       /\ c > 1
       /\ Resolved(c)
       /\ Resolved(c - 1)
       /\ "B" \in DOMAIN persisted
       /\ "A" \in TuneNames
       /\ Throwers(c) # {}
       /\ Returners(c) # {}

\* C7: when a tune's save hook throws during save(), the result still holds the tool's
\* extracted data and, for every other tune whose save hook returned, an entry with a
\* payload of that tune's hook: the one returned in this save() unless the tune loop of
\* an overlapping save() has run since.
C7_ThrowingTuneIsIsolated ==
    \A c \in SaveIds :
       (Resolved(c) /\ Throwers(c) # {}) =>
          /\ saves[c].data = ExtractedData(c)
          /\ \A n \in Returners(c) :
                /\ n \in DOMAIN saves[c].tunes
                /\ saves[c].tunes[n].from = "hook"
                /\ saves[c].tunes[n].tune = n
                /\ saves[c].loopAtResolve = c => saves[c].tunes[n] = HookPayload(n, c)

C7_Witness ==
    \E c \in SaveIds :
       /\ Resolved(c)
       /\ Throwers(c) = {"A"}
       /\ Returners(c) = {"R"}
       /\ saves[c].loopAtResolve = c

\* C8 as stated: a tune whose save hook throws during a save() has no entry in that
\* save()'s tunes map.
C8_Original ==
    \A c \in SaveIds :
       Resolved(c) => \A n \in Throwers(c) : n \notin DOMAIN saves[c].tunes

\* C9 as stated: when the tool's own save hook throws or rejects, save() resolves to
\* undefined and nothing escapes to the caller.
C9_Original ==
    \A c \in SaveIds :
       (saves[c].extraction # "ok" /\ saves[c].pc \notin {"unused", "awaitTool"})
          => saves[c].pc = "resolvedUndefined"


(***************************************************************************)
(* Properties of the input cache (checked under SpecInputs)                *)
(***************************************************************************)
\* this step is a run of the body of the debounced handler
HandlerRan == pending # <<>> /\ pending' = <<>> /\ ~pendingEvent'
\* what a read of block.inputs returns in the state after the step
NextRead == InputsGet(cachedInputs', inputIndex', dom').inputs

\* C10 as stated: once the debounced handler has run for any detected batch, the next
\* read of inputs returns the live regions.
C10_Original ==
    [][(observing /\ HandlerRan) => NextRead = dom']_vars

\* C10 amended: once the debounced handler has run for a detected batch in which no
\* added or removed element is marked mutation-free, the next read of inputs returns
\* the live regions, not the list cached before the mutation.
C10_ProcessedBatchRefreshesInputs ==
    [][(observing /\ HandlerRan /\ ShouldFireUpdate(pending[1])) => NextRead = dom']_vars

\* a processed batch has replaced a cache that no longer matched the content
C10_Witness ==
    /\ observing
    /\ handled = "fired"
    /\ pending = <<>>
    /\ cachedInputs = dom
    /\ Len(dom) = 2
    /\ inputIndex = 1

\* the list a read of block.inputs returns in this state
CurrentList == InputsGet(cachedInputs, inputIndex, dom).inputs

\* C11: when the recomputed list of editable regions is too short for the tracked
\* index, a read of currentInput returns the last input of the list (undefined when
\* the list is empty, as lastInput does); a read always returns normally, and what
\* it returns is undefined or a member of the list.
C11_ShrunkListReadsLastInput ==
    returned.op = "currentInput"
        => /\ returned.value \in Range(CurrentList) \cup {Undefined}
           /\ indexClamped => /\ returned.value = LastInput(CurrentList)
                               /\ inputIndex = Len(CurrentList) - 1

\* the second of two regions was current, the list shrank to one region, and the
\* read returned that region
C11_Witness ==
    /\ returned.op = "currentInput"
    /\ indexClamped
    /\ Len(dom) = 1
    /\ cachedInputs = dom
    /\ returned.value = dom[1]
    /\ inputIndex = 0

(***************************************************************************)
(* Properties of the tool hooks (checked under SpecHooks)                  *)
(***************************************************************************)
\* the operation just performed invoked the hook, once, with its params
HookInvoked ==
    /\ Len(hookLog) = completed.logged + 1
    /\ hookLog[Len(hookLog)] = [method |-> completed.method, params |-> completed.params]
\* the operation just performed invoked nothing
NothingInvoked == Len(hookLog) = completed.logged

\* C12: call(methodName, params) invokes the named hook, with the params, exactly when
\* the tool implements it and invokes nothing otherwise; whatever the hook does,
\* throwing included, call returns normally.
C12_CallInvokesIfImplementedAndNeverThrows ==
    completed.op = "call"
        => /\ completed.outcome = "returned"
           /\ IF completed.method \in toolInstance THEN HookInvoked ELSE NothingInvoked

\* a hook the tool implements threw, and call returned normally
C12_Witness ==
    /\ completed.op = "call"
    /\ completed.method \in toolInstance
    /\ completed.behaviour = "throws"
    /\ HookInvoked
    /\ completed.outcome = "returned"

\* C13 as stated: an error thrown, or a rejection produced, by the tool's validate,
\* destroy or merge hook does not escape from validate(data), destroy() or
\* mergeWith(data): the operation still completes normally.
C13_Original ==
    (/\ completed.op \in {"validate", "destroy", "mergeWith"}
     /\ HookInvoked
     /\ completed.behaviour \in {"throws", "rejects"})
        => completed.outcome \in {"resolved", "returned"}

\* C14: validate(data) resolves to true, for every data, when the tool has no validate
\* hook; when it has one and the hook returns a verdict for the data, validate resolves
\* to exactly that verdict.
C14_ValidateIsTrueOrTheHooksVerdict ==
    completed.op = "validate"
        => IF "validate" \in toolInstance
           THEN completed.behaviour \in Verdicts
                    => /\ HookInvoked
                       /\ completed.outcome = "resolved"
                       /\ completed.value = completed.behaviour
           ELSE /\ NothingInvoked
                /\ completed.outcome = "resolved"
                /\ completed.value = "true"

\* the tool's validate hook was given the data and found it invalid
C14_Witness ==
    /\ completed.op = "validate"
    /\ "validate" \in toolInstance
    /\ HookInvoked
    /\ completed.params = "d2"
    /\ completed.behaviour = "false"
    /\ completed.outcome = "resolved"
    /\ completed.value = "false"

(***************************************************************************)
(* Properties of the mutation handler (checked under SpecInputs)           *)
(***************************************************************************)

\* C15 as stated: a run of the handler body ignores its batch (cache kept, current
\* input not re-resolved, no 'updated' hook, no didMutated event) when every added or
\* removed node of the batch is marked mutation-free, and a batch with at least one
\* added or removed node that is not marked is processed (cache dropped, current input
\* re-resolved, 'updated' hook and didMutated event fired), even if the batch also
\* lists mutation-free nodes.
C15_Original ==
    [][HandlerRan =>
          /\ HasUnmarkedNode(pending[1]) => handled' = "fired"
          /\ EveryNodeMarked(pending[1])
                => handled' = "ignored" /\ UNCHANGED <<cachedInputs, inputIndex>>]_vars

\* C16 as stated: once willUnselect() or destroy() has been called, a notification
\* still pending in the debounce window is cancelled: while the unit stays unselected
\* (or is destroyed) no run of the handler body drops the cache, calls the 'updated'
\* hook or emits didMutated.
C16_Original ==
    [][(HandlerRan /\ (~observing \/ destroyed)) => handled' # "fired"]_vars

\* this step is a run of the handler body for an 'input' Event
HandlerRanForEvent == pendingEvent /\ ~pendingEvent' /\ pending' = <<>>

\* C17 as stated: while the unit is selected, an 'input' event on one of its native
\* inputs goes through the debounced handler and, once the delay has elapsed, has the
\* effects of a processed batch: the cache is dropped, the 'updated' hook fires and
\* didMutated is emitted.
C17_Original ==
    [][(observing /\ HandlerRanForEvent) => handled' = "fired"]_vars

\* C18 as stated: the batches notified less than 450 time units apart are coalesced:
\* the handler body runs for them once, only when 450 time units have passed since the
\* last notification, and no batch of the burst that lists a node not marked
\* mutation-free is lost: the body processes the burst if one of its batches, handled
\* alone, would be processed.
C18_Original ==
    [][HandlerRan =>
          /\ timer = modificationDebounceTimer
          /\ burstDue => handled' = "fired"]_vars

\* C19 as stated: in every reachable state, after any DOM changes (shrinking to no
\* region and growing again included), cache invalidations, assignments and reads,
\* when the unit has at least one editable region the tracked index lies in
\* 0..(number of inputs - 1) and a read of currentInput returns a member of the
\* inputs list.
C19_Original ==
    (~destroyed /\ Len(dom) >= 1)
        => LET read == CurrentInputGet(cachedInputs, inputIndex, dom)
           IN /\ read.inputIndex \in 0..(Len(CurrentList) - 1)
              /\ read.value \in Range(CurrentList)


(***************************************************************************)
(* Properties of tune composition (checked under SpecSave)                 *)
(***************************************************************************)
\* C20 as stated: at construction the unavailable-tune store holds exactly the
\* persisted entries whose name matches no instantiated tune, user or internal, each
\* of them verbatim.
C20_Original ==
    nSaves = 0
        => /\ DOMAIN unavailableTunesData = DOMAIN persisted \ TuneNames
           /\ \A n \in DOMAIN unavailableTunesData : unavailableTunesData[n] = persisted[n]

(***************************************************************************)
(* Properties of the composed container (checked under SpecCompose)        *)
(***************************************************************************)
\* the wrappers expected around the content, innermost first: the user tunes whose wrap
\* returns a wrapper, then the internal ones
ExpectedWrappers ==
    LET wrapping == SelectSeq(tunes, LAMBDA t : t.wrap = "wraps")
        user == SelectSeq(wrapping, LAMBDA t : ~t.isInternal)
        internal == SelectSeq(wrapping, LAMBDA t : t.isInternal)
    IN [i \in 1..Len(user \o internal) |-> (user \o internal)[i].name]

\* C21: the content is wrapped by the tunes in the order user tunes, then internal
\* tunes, each wrapping the result of the one before, so the last wrapping tune is
\* outermost; a tune with no wrap hook, or whose wrap hook throws, adds no wrapper and
\* the tunes after it still wrap.
C21_WrapIsLeftFoldInTuneOrder ==
    wrapped # <<>> => wrapped = ContentNode \o ExpectedWrappers

\* the internal tune is listed first and still wraps outermost, around the user tune B,
\* after the wrap of the user tune A threw
C21_Witness ==
    /\ Len(tunes) = 3
    /\ tunes[1].name = "R"
    /\ tunes[2].name = "A"
    /\ tunes[2].wrap = "throws"
    /\ wrapped = <<"content", "B", "R">>

(***************************************************************************)
(* Properties of the tool picker (checked under SpecPicker)                *)
(***************************************************************************)
\* the place in the list of the unit with this id (0 when it is not there)
PlaceOf(id) ==
    IF \E i \in 1..Len(allBlocks) : allBlocks[i].id = id
    THEN CHOOSE i \in 1..Len(allBlocks) : allBlocks[i].id = id
    ELSE 0

\* C22 as stated: picking a tool inserts a unit of that tool (in place of the current
\* unit iff that one was empty), sets the caret to the new unit first and, when the new
\* unit has no editable region, moves it to the unit after the new one (a unit freshly
\* inserted at the end when the new unit was last); whatever the outcome, a failing
\* insertion included, the picker is closed afterwards.
C22_Original ==
    picked.outcome # "none"
        => /\ opened = FALSE
           /\ picked.outcome = "returned"
                 => LET place == PlaceOf(picked.newBlock)
                    IN /\ place # 0
                       /\ allBlocks[place].tool = picked.tool
                       /\ picked.replace = picked.before[place - (IF picked.replace
                                                                  THEN 0 ELSE 1)].isEmpty
                       /\ picked.firstCaret = picked.newBlock
                       /\ IF InputsLength(picked.tool) = 0
                          THEN /\ place < Len(allBlocks)
                               /\ caret = allBlocks[place + 1].id
                          ELSE caret = picked.newBlock

(***************************************************************************)
(* Properties of overlapping toggles (checked under Spec)                  *)
(***************************************************************************)
\* the steps of a reload cycle
CycleSteps == {"save", "clear", "render"}

\* the calls whose reload cycle has started and has not finished
Reloading == {c \in CallIds : calls[c].pc \in {"awaitSave", "awaitClear", "awaitRender"}}

\* between two steps of one call's reload cycle there is no step of another call's
CyclesDoNotInterleave ==
    \A i \in 1..Len(log) : \A k \in i..Len(log) :
        (log[i].ev \in CycleSteps /\ log[k].ev \in CycleSteps /\ log[i].by = log[k].by)
            => \A j \in i..k : log[j].ev \in CycleSteps => log[j].by = log[i].by

\* C23 as stated: transitions are atomic with respect to other toggle callers: the
\* save/clear/render cycles of two state-changing toggles do not interleave, and
\* isEnabled does not show a call's new state while that call's reload is incomplete.
C23_Original ==
    /\ CyclesDoNotInterleave
    /\ \A c \in Reloading : removebleEnabled = calls[c].oldState

\* C24 as stated: a toggle(target) call that completes without error resolves to its
\* target, also when another toggle changed the state while its reload was pending.
C24_Original ==
    \A c \in CallIds : calls[c].pc = "done" => calls[c].result = <<calls[c].state>>

\* the reload cycle of call c has got its serialized blocks from the save pipeline
SaveReturned(c) == calls[c].pc \in {"awaitClear", "awaitRender", "done"}

ResultTunesNow(c) == unavailableTunesData

\* C26 as stated: save() leaves the retained unavailable-tune store unchanged: once a
\* save() has run its tune loop the store is still what construction put in it, it has
\* no entry for a loaded tune, and the tunes map of a result is not changed by later
\* saves.
C26_Original ==
    lastLoop # 0
        => /\ unavailableTunesData = Unavailable(persisted, tunesInstances)
           /\ \A n \in TuneNames : n \notin DOMAIN unavailableTunesData
           /\ \A c \in SaveIds : Resolved(c) => ResultTunesNow(c) = saves[c].tunes


====
